---- MODULE Spec2Model ----
(***************************************************************************)
(* keyfinder-cli: fill_audio_data (src/keyfinder_cli.cpp), the decode      *)
(* pipeline that opens a container, selects the first audio stream, opens  *)
(* the codec and the resample context, and then loops over the packets of  *)
(* that stream, decoding them into the caller's KeyFinder::AudioData.      *)
(* Two more specifications follow the same file: OnceSpec, several threads *)
(* arriving at the std::call_once of fill_audio_data, and MainSpec, main   *)
(* with its option loop, the memoized tone profiles and its exit codes.    *)
(*                                                                         *)
(* The ffmpeg calls are the environment: each one is a nondeterministic    *)
(* choice over the results the call can give (success or failure, the      *)
(* bytes a decode call consumes, whether it yields a frame).               *)
(***************************************************************************)
EXTENDS Integers, Sequences, FiniteSets, TLC

\* ---------------------------------------------------------------- bounds
MaxStreams == 2        \* streams in a container
MaxUnits == 3          \* units of a container the decoder does not reject
MaxPktSize == 3        \* bytes in one unit
MaxFrames == 2         \* frames one file decodes to
MaxFrameSamples == 2   \* samples in one decoded frame
NThreads == 3          \* threads calling fill_audio_data at the same time
MaxCalls == 2          \* calls of fill_audio_data one thread makes
MaxOptions == 3        \* options on one command line

\* ----------------------------------------------------- program constants
BAD_PACKET_THRESHOLD == 100
SEMITONES == 12
OCTAVES == 6

\* AV_SAMPLE_FMT_S16 and one other sample format (float)
S16 == "s16"
FLT == "flt"

\* bytes per sample of a format
BytesPerSample(fmt) == IF fmt = S16 THEN 2 ELSE 4

VARIABLES
    pc,                 \* position in fill_audio_data
    err,                \* what() of the exception thrown, "" when none
    streams,            \* format_context->streams, in container order
    audio_stream,       \* index of the selected stream, -1 for nullptr
    codec_context,      \* audio_stream->codec
    held,               \* resources acquired and not yet released
    packet,             \* SafeAVPacket packet (inner_packet)
    current_packet_offset,
    back_packet_count,
    audio_frame,        \* the frame the last decode or convert produced
    audio,              \* the caller's KeyFinder::AudioData
    resample,           \* options set on the resample context
    max_units,          \* units the container holds at most
    many_bad,           \* beside them it holds any number that fail to decode
    at_eof,             \* av_read_frame has reported the end of the container
    units_read,         \* units av_read_frame has returned so far
    frames_made,        \* frames the decoder has produced so far
    \* history of the run, read by the properties only
    unit_size,          \* size of the unit the current packet was fetched as
    unit_consumed,      \* bytes of it the decode calls have consumed
    decode_failed,      \* the last decode call on it failed
    errors_seen,        \* decode errors so far
    canonical,          \* samples of the canonical frames so far, in order
    target_units,       \* the units read that belong to the selected stream
    decoded_units,      \* the units handed to the decoder, each named once
    units_unreffed,     \* units read has released with av_packet_unref
    \* threads entering fill_audio_data (lines 86-92)
    thread_pc,          \* where each thread is
    thread_calls,       \* calls of fill_audio_data each thread has made
    init_flag,          \* the static std::once_flag
    register_calls,     \* times av_register_all has been entered
    registered,         \* av_register_all has returned
    \* main (lines 335-441) and the tone profiles (lines 293-316)
    main_pc,            \* where main is
    argv,               \* the command line: its options, and whether a filename
    optind,             \* options getopt_long has returned so far
    selected_notation,
    profiles,           \* main's array of SEMITONES doubles
    tpMajor,            \* the static vectors, in millionths
    tpMinor,
    first_major,        \* the profile of the first toneProfileMajor call
    first_minor,        \* the profile of the first toneProfileMinor call
    key,
    estimated_with,     \* the two profiles keyOfChromaVector was given
    exit_code,          \* -1 while main runs
    out_lines,          \* lines main wrote to std::cout
    err_lines,          \* lines main wrote to std::cerr
    ended_by            \* the return, or the crash, that ended main

vars == << pc, err, streams, audio_stream, codec_context, held, packet,
           current_packet_offset, back_packet_count, audio_frame, audio,
           resample, max_units, many_bad, at_eof, units_read, frames_made, unit_size,
           unit_consumed,
           decode_failed, errors_seen, canonical, target_units,
           decoded_units, units_unreffed,
           thread_pc, thread_calls, init_flag, register_calls, registered,
           main_pc, argv, optind, selected_notation, profiles, tpMajor,
           tpMinor, first_major, first_minor, key, estimated_with,
           exit_code, out_lines, err_lines, ended_by >>

\* ------------------------------------------------------------ the inputs
VideoStream ==
    [codec_type |-> "video", sample_fmt |-> S16, sample_rate |-> 0,
     channels |-> 0, channel_layout |-> 0]

\* a 16 bit PCM stream whose container gives no channel layout
PcmStream ==
    [codec_type |-> "audio", sample_fmt |-> S16, sample_rate |-> 44100,
     channels |-> 1, channel_layout |-> 0]

\* a float stream with a stereo layout (AV_CH_LAYOUT_STEREO = 3)
FloatStream ==
    [codec_type |-> "audio", sample_fmt |-> FLT, sample_rate |-> 48000,
     channels |-> 2, channel_layout |-> 3]

StreamKinds == {VideoStream, PcmStream, FloatStream}

Containers ==
    UNION {[1..n -> StreamKinds] : n \in 0..MaxStreams}

\* the containers whose units are read and decoded
DecodedContainers ==
    { << PcmStream >>, << FloatStream >>,
      << VideoStream, PcmStream >>, << FloatStream, VideoStream >> }

NoCodecContext ==
    [sample_fmt |-> S16, sample_rate |-> 0, channels |-> 0, channel_layout |-> 0]

\* ------------------------------------------------------------- AudioData
\* KeyFinder::AudioData as default constructed in main
EmptyAudioData ==
    [frameRate |-> 0, channels |-> 0, samples |-> << >>, writeIterator |-> 0]

\* audio.addToSampleCount(n): n more samples, zero until written
addToSampleCount(a, n) ==
    [a EXCEPT !.samples = @ \o [i \in 1..n |-> 0]]

\* audio.resetIterators()
resetIterators(a) == [a EXCEPT !.writeIterator = 0]

\* audio.advanceWriteIterator(by)
advanceWriteIterator(a, by) == [a EXCEPT !.writeIterator = @ + by]

\* audio.setSampleAtWriteIterator(value)
setSampleAtWriteIterator(a, value) ==
    [a EXCEPT !.samples[a.writeIterator + 1] = value]

\* -------------------------------------------------------------- packets
\* SafeAVPacket(): av_init_packet (stream_index 0), data = nullptr, size = 0.
\* data is the offset of inner_packet.data from the first byte of the unit it
\* refers to, has_data is data != nullptr.
BlankPacket ==
    [has_data |-> FALSE, data |-> 0, size |-> 0, stream_index |-> 0]

\* av_packet_unref: drops the unit and resets every field to its default, as
\* av_init_packet does
av_packet_unref(p) == BlankPacket

NoFrame == [format |-> S16, data |-> << >>, linesize |-> 0]

\* ------------------------------------------------------ stream selection
RECURSIVE ScanStreams(_, _)
ScanStreams(s, i) ==
    IF i >= Len(s) THEN -1
    ELSE IF s[i + 1].codec_type = "audio" THEN i
    ELSE ScanStreams(s, i + 1)

RECURSIVE ScanStreamsNoBreak(_, _, _)
ScanStreamsNoBreak(s, i, found) ==
    IF i >= Len(s) THEN found
    ELSE IF s[i + 1].codec_type = "audio" THEN ScanStreamsNoBreak(s, i + 1, i)
    ELSE ScanStreamsNoBreak(s, i + 1, found)

\* the loop without its break: the last audio stream wins
LastAudioStream(s) == ScanStreamsNoBreak(s, 0, -1)

\* the index of the stream the loop leaves in audio_stream, -1 for nullptr
FirstAudioStream(s) == ScanStreams(s, 0)

\* av_get_default_channel_layout: mono (0x4) for one channel, stereo (0x3)
\* for two
av_get_default_channel_layout(channels) ==
    IF channels = 1 THEN 4 ELSE IF channels = 2 THEN 3 ELSE 0

\* ------------------------------------------------------------- unwinding
\* What the destructors release when fill_audio_data is left: the two
\* shared_ptr contexts, the frames, and the packet if its data is set.
\* Nothing closes the codec that avcodec_open2 opened.
Unwind(h, p) ==
    h \ ({"format_context", "resample_context", "audio_frame", "converted_frame"}
         \cup (IF p.has_data THEN {"packet"} ELSE {}))

Throw(msg, h, p) ==
    /\ pc' = "thrown"
    /\ err' = msg
    /\ held' = Unwind(h, p)

history == << unit_size, unit_consumed, decode_failed, errors_seen, canonical,
             target_units, decoded_units, units_unreffed >>
container == << streams, max_units, many_bad, at_eof, units_read, frames_made >>
loopvars == << packet, current_packet_offset, back_packet_count, audio_frame >>

\* ------------------------------------------------------------------ Init
FillInit ==
    /\ pc = "open"
    /\ err = ""
    /\ \/ /\ streams \in Containers
          /\ max_units = 0
          /\ many_bad = FALSE
       \/ /\ streams \in DecodedContainers
          /\ max_units = MaxUnits
          /\ many_bad = FALSE
       \/ /\ streams = << PcmStream >>
          /\ max_units = MaxUnits
          /\ many_bad = TRUE
    /\ audio_stream = -1
    /\ codec_context = NoCodecContext
    /\ held = {}
    /\ packet = BlankPacket
    /\ current_packet_offset = 0
    /\ back_packet_count = 0
    /\ audio_frame = NoFrame
    /\ audio = EmptyAudioData
    /\ resample = [opened |-> FALSE]
    /\ at_eof = FALSE
    /\ units_read = 0
    /\ frames_made = 0
    /\ unit_size = 0
    /\ unit_consumed = 0
    /\ decode_failed = FALSE
    /\ errors_seen = 0
    /\ canonical = << >>
    /\ target_units = << >>
    /\ decoded_units = << >>
    /\ units_unreffed = 0

\* ----------------------------------------------------------------- setup
\* lines 92-101: avformat_open_input, which frees the context when it fails
OpenInput ==
    /\ pc = "open"
    /\ \/ /\ pc' = "probe"
          /\ held' = held \cup {"format_context"}
          /\ err' = err
       \/ Throw("Unable to open audio file", held, packet)
    /\ UNCHANGED << audio_stream, codec_context, audio, resample, loopvars,
                    container, history >>

\* lines 104-105: avformat_find_stream_info
FindStreamInfo ==
    /\ pc = "probe"
    /\ \/ /\ pc' = "select"
          /\ UNCHANGED << err, held >>
       \/ Throw("Unable to get stream info", held, packet)
    /\ UNCHANGED << audio_stream, codec_context, audio, resample, loopvars,
                    container, history >>

\* the same with the AudioData given a default frame rate before the search
SelectStreamWithDefaults ==
    /\ pc = "select"
    /\ audio_stream' = FirstAudioStream(streams)
    /\ audio' = [audio EXCEPT !.frameRate = 44100]
    /\ IF audio_stream' = -1
       THEN /\ Throw("File does not have any audio streams", held, packet)
            /\ UNCHANGED codec_context
       ELSE /\ pc' = "find_decoder"
            /\ codec_context' =
                 [sample_fmt |-> streams[audio_stream' + 1].sample_fmt,
                  sample_rate |-> streams[audio_stream' + 1].sample_rate,
                  channels |-> streams[audio_stream' + 1].channels,
                  channel_layout |-> streams[audio_stream' + 1].channel_layout]
            /\ UNCHANGED << err, held >>
    /\ UNCHANGED << resample, loopvars, container, history >>

\* lines 107-126: pick the first audio stream, or throw
SelectStream ==
    /\ pc = "select"
    /\ audio_stream' = FirstAudioStream(streams)
    /\ IF audio_stream' = -1
       THEN /\ Throw("File does not have any audio streams", held, packet)
            /\ UNCHANGED codec_context
       ELSE /\ pc' = "find_decoder"
            /\ codec_context' =
                 [sample_fmt |-> streams[audio_stream' + 1].sample_fmt,
                  sample_rate |-> streams[audio_stream' + 1].sample_rate,
                  channels |-> streams[audio_stream' + 1].channels,
                  channel_layout |-> streams[audio_stream' + 1].channel_layout]
            /\ UNCHANGED << err, held >>
    /\ UNCHANGED << audio, resample, loopvars, container, history >>

\* lines 127-130: avcodec_find_decoder
FindDecoder ==
    /\ pc = "find_decoder"
    /\ \/ /\ pc' = "open_codec"
          /\ UNCHANGED << err, held >>
       \/ Throw("Unsupported audio stream", held, packet)
    /\ UNCHANGED << audio_stream, codec_context, audio, resample, loopvars,
                    container, history >>

\* lines 133-134: avcodec_open2
OpenCodec ==
    /\ pc = "open_codec"
    /\ \/ /\ pc' = "open_resample"
          /\ held' = held \cup {"codec_session"}
          /\ err' = err
       \/ Throw("Unable to open the codec", held, packet)
    /\ UNCHANGED << audio_stream, codec_context, audio, resample, loopvars,
                    container, history >>

\* lines 138-160: the resample context, after the default channel layout
OpenResample ==
    /\ pc = "open_resample"
    /\ codec_context' =
         IF codec_context.channel_layout = 0
         THEN [codec_context EXCEPT
                 !.channel_layout = av_get_default_channel_layout(codec_context.channels)]
         ELSE codec_context
    /\ resample' =
         [opened |-> TRUE,
          in_sample_fmt |-> codec_context'.sample_fmt,
          in_sample_rate |-> codec_context'.sample_rate,
          in_channel_layout |-> codec_context'.channel_layout,
          out_sample_fmt |-> S16,
          out_sample_rate |-> codec_context'.sample_rate,
          out_channel_layout |-> codec_context'.channel_layout]
    /\ \/ /\ pc' = "prepare"
          /\ held' = held \cup {"resample_context"}
          /\ err' = err
       \/ Throw("Unable to open the resample context",
                held \cup {"resample_context"}, packet)
    /\ UNCHANGED << audio_stream, audio, loopvars, container, history >>

\* lines 163-170: frame rate and channels of the AudioData, the packet, the
\* frame and the two counters
\* the same with the channel count taken from the channel layout mask
setAudioFormatFromLayout(a, ctx) ==
    [a EXCEPT !.frameRate = ctx.sample_rate, !.channels = ctx.channel_layout]

setAudioFormat(a, ctx) ==
    [a EXCEPT !.frameRate = ctx.sample_rate, !.channels = ctx.channels]

PrepareAudio ==
    /\ pc = "prepare"
    /\ audio' = setAudioFormat(audio, codec_context)
    /\ packet' = BlankPacket
    /\ audio_frame' = NoFrame
    /\ held' = held \cup {"audio_frame"}
    /\ current_packet_offset' = 0
    /\ back_packet_count' = 0
    /\ pc' = "loop"
    /\ UNCHANGED << err, audio_stream, codec_context, resample, container,
                    history >>

\* ----------------------------------------------------------- packet read
\* The container is read lazily: each unit av_read_frame returns belongs to
\* any stream and has 1..MaxPktSize bytes.  A container holds at most
\* max_units units: none (Init draws every stream list for these), or up to
\* MaxUnits for the stream lists of DecodedContainers.  The file of many bad
\* units (many_bad) is one PCM stream that holds, beside those, one more unit
\* for every failed decode (a failed decode abandons its packet), so that the
\* bad packet threshold is within reach; it decodes to at most one frame.
ContainerHasUnit ==
    /\ ~at_eof
    /\ units_read < max_units + (IF many_bad THEN back_packet_count ELSE 0)

DecoderHasFrame ==
    frames_made < (IF many_bad THEN 1 ELSE MaxFrames)

\* lines 61-69: release the unit held, then av_read_frame
ReadFrame ==
    /\ pc = "read"
    /\ LET p == IF packet.has_data THEN av_packet_unref(packet) ELSE packet
           h == IF packet.has_data THEN held \ {"packet"} ELSE held
       IN \/ /\ ContainerHasUnit
             /\ \E idx \in 0..(Len(streams) - 1), sz \in 1..MaxPktSize :
                  /\ packet' = [has_data |-> TRUE, data |-> 0, size |-> sz,
                                stream_index |-> idx]
                  /\ target_units' = IF idx = audio_stream
                                     THEN Append(target_units, units_read + 1)
                                     ELSE target_units
             /\ held' = h \cup {"packet"}
             /\ units_read' = units_read + 1
             /\ at_eof' = at_eof
          \/ /\ packet' = [p EXCEPT !.has_data = FALSE]
             /\ held' = h
             /\ at_eof' = TRUE
             /\ units_read' = units_read
             /\ target_units' = target_units
    /\ units_unreffed' = IF packet.has_data THEN units_unreffed + 1
                         ELSE units_unreffed
    /\ pc' = "read_check"
    /\ UNCHANGED << err, streams, max_units, many_bad, frames_made, audio_stream,
                    codec_context, audio, resample, current_packet_offset,
                    back_packet_count, audio_frame, unit_size, unit_consumed,
                    decode_failed, errors_seen, canonical, decoded_units >>

\* the test of line 72 left out: read returns whatever packet it got
ReadStopsAtAny(p, stream_index) == TRUE

\* line 72: read returns once the packet is of the wanted stream
ReadStops(p, stream_index) == p.stream_index = stream_index

\* lines 72-73, then 180-184 in the caller: the offset restarts, and a
\* packet without bytes ends the decode loop
ReadCheck ==
    /\ pc = "read_check"
    /\ IF ReadStops(packet, audio_stream)
       THEN /\ current_packet_offset' = 0
            /\ pc' = IF packet.size <= 0 THEN "exit" ELSE "decode"
            /\ unit_size' = packet.size
            /\ unit_consumed' = 0
            /\ decode_failed' = FALSE
       ELSE /\ pc' = "read"
            /\ UNCHANGED << current_packet_offset, unit_size, unit_consumed,
                            decode_failed >>
    /\ UNCHANGED << err, audio_stream, codec_context, held, packet,
                    back_packet_count, audio_frame, audio, resample, container,
                    errors_seen, canonical, target_units, decoded_units,
                    units_unreffed >>

\* ----------------------------------------------------------- decode loop
\* line 176: a new packet is wanted
WantsPacket(offset, p) == offset >= p.size

\* the same, counting consecutive bad packets only: a packet decoded without
\* error clears the counter
LoopTopClearingCount ==
    /\ pc = "loop"
    /\ pc' = IF WantsPacket(current_packet_offset, packet) THEN "read" ELSE "decode"
    /\ back_packet_count' = IF decode_failed THEN back_packet_count ELSE 0
    /\ UNCHANGED << err, audio_stream, codec_context, held, audio, resample,
                    packet, current_packet_offset, audio_frame, container,
                    history >>

\* lines 173-185
LoopTop ==
    /\ pc = "loop"
    /\ pc' = IF WantsPacket(current_packet_offset, packet) THEN "read" ELSE "decode"
    /\ UNCHANGED << err, audio_stream, codec_context, held, audio, resample,
                    loopvars, container, history >>

\* the test of line 194 off by one
TooManyBadPacketsEarly(count) == count >= BAD_PACKET_THRESHOLD

\* line 194: the test made after the counter is incremented
TooManyBadPackets(count) == count > BAD_PACKET_THRESHOLD

\* the test of line 217 left out: no frame is resampled
NeedsResampleNever(ctx) == FALSE

\* line 217
NeedsResample(ctx) == ctx.sample_fmt # S16

\* the frame a decode call yields: n samples in the stream's sample format,
\* numbered in the order the decoder produces them
DecodedFrame(fmt, n) ==
    [format |-> fmt,
     data |-> [i \in 1..n |-> frames_made * MaxFrameSamples + i],
     linesize |-> n * BytesPerSample(fmt)]

\* lines 203-209: the offset and the packet after processed_size bytes
SeekPacket(p, offset) ==
    [p EXCEPT !.size = @ - offset, !.data = @ + offset]

\* line 198 left out: the failed packet keeps its size
KeepPacket(p) == p

\* line 198: the rest of the packet is dropped
DropPacket(p) == [p EXCEPT !.size = 0]

\* lines 187-213: one avcodec_decode_audio4 call and what the loop does with
\* its result
Decode ==
    /\ pc = "decode"
    /\ decoded_units' =
         IF decoded_units # << >> /\ decoded_units[Len(decoded_units)] = units_read
         THEN decoded_units
         ELSE Append(decoded_units, units_read)
    /\ \/ \* processed_size < 0
          /\ back_packet_count' = back_packet_count + 1
          /\ errors_seen' = errors_seen + 1
          /\ decode_failed' = TRUE
          /\ IF TooManyBadPackets(back_packet_count')
             THEN /\ Throw("Too many bad packets", held, packet)
                  /\ UNCHANGED << packet, current_packet_offset >>
             ELSE /\ current_packet_offset' = 0
                  /\ packet' = DropPacket(packet)
                  /\ pc' = "loop"
                  /\ UNCHANGED << err, held >>
          /\ UNCHANGED << audio_frame, frames_made, unit_consumed, canonical >>
       \/ \* processed_size >= 0
          \E processed_size \in 0..packet.size, frame_available \in BOOLEAN :
             /\ current_packet_offset' = current_packet_offset + processed_size
             /\ packet' = SeekPacket(packet, current_packet_offset')
             /\ unit_consumed' = unit_consumed + processed_size
             /\ IF frame_available
                THEN /\ DecoderHasFrame
                     /\ \E n \in 1..MaxFrameSamples :
                          audio_frame' = DecodedFrame(codec_context.sample_fmt, n)
                     /\ frames_made' = frames_made + 1
                     /\ pc' = IF NeedsResample(codec_context) THEN "convert" ELSE "append"
                     /\ canonical' = IF NeedsResample(codec_context) THEN canonical
                                     ELSE canonical \o audio_frame'.data
                ELSE /\ pc' = "loop"
                     /\ UNCHANGED << audio_frame, frames_made, canonical >>
             /\ UNCHANGED << err, held, back_packet_count, errors_seen,
                             decode_failed >>
    /\ UNCHANGED << audio_stream, codec_context, audio, resample, streams,
                    max_units, many_bad, at_eof, units_read, unit_size,
                    target_units, units_unreffed >>

\* a float sample as 16 bit PCM: clipped to the int16 range
Clip16(v) == IF v > 32767 THEN 32767 ELSE IF v < -32768 THEN -32768 ELSE v

\* avresample_convert_frame into a frame of format AV_SAMPLE_FMT_S16
ConvertedFrame(f) ==
    [format |-> S16,
     data |-> [i \in 1..Len(f.data) |-> Clip16(f.data[i])],
     linesize |-> Len(f.data) * BytesPerSample(S16)]

\* lines 217-229: the frame is converted to 16 bit PCM and swapped in; the
\* other frame is freed at the end of the block
Convert ==
    /\ pc = "convert"
    /\ \/ /\ audio_frame' = ConvertedFrame(audio_frame)
          /\ canonical' = canonical \o audio_frame'.data
          /\ pc' = "append"
          /\ UNCHANGED << err, held >>
       \/ /\ Throw("Unable to resample audio into 16bit PCM data",
                   held \cup {"converted_frame"}, packet)
          /\ UNCHANGED << audio_frame, canonical >>
    /\ UNCHANGED << audio_stream, codec_context, audio, resample, packet,
                    current_packet_offset, back_packet_count, container,
                    unit_size, unit_consumed, decode_failed, errors_seen,
                    target_units, decoded_units, units_unreffed >>

\* line 235: the i-th int16_t of extended_data[0] (i from 1).  A float
\* sample lies there as two 16 bit halves.
Int16At(f, i) ==
    IF f.format = S16 THEN f.data[i]
    ELSE IF i % 2 = 1 THEN f.data[(i + 1) \div 2] % 65536
    ELSE f.data[i \div 2] \div 65536

\* lines 244-248: the write loop, from sample i on
RECURSIVE WriteSamples(_, _, _, _)
WriteSamples(a, f, i, sample_count) ==
    IF i > sample_count THEN a
    ELSE WriteSamples(advanceWriteIterator(setSampleAtWriteIterator(a, Int16At(f, i)), 1),
                      f, i + 1, sample_count)

\* the same without line 242: the write iterator stays at the start
AppendSamplesFromStart(a, f) ==
    LET sample_count == f.linesize \div 2
    IN WriteSamples(resetIterators(addToSampleCount(a, sample_count)),
                    f, 1, sample_count)

\* lines 235-248
AppendSamples(a, f) ==
    LET sample_count == f.linesize \div 2
        old_sample_count == Len(a.samples)
    IN WriteSamples(
         advanceWriteIterator(resetIterators(addToSampleCount(a, sample_count)),
                              old_sample_count),
         f, 1, sample_count)

AppendFrame ==
    /\ pc = "append"
    /\ audio' = AppendSamples(audio, audio_frame)
    /\ pc' = "loop"
    /\ UNCHANGED << err, audio_stream, codec_context, held, resample, loopvars,
                    container, history >>

\* line 184: break, and the destructors at line 250
Exit ==
    /\ pc = "exit"
    /\ held' = Unwind(held, packet)
    /\ pc' = "done"
    /\ UNCHANGED << err, audio_stream, codec_context, audio, resample,
                    loopvars, container, history >>

\* ---------------------------------------- concurrent callers, lines 88-92
Threads == 1 .. NThreads

once_vars == << thread_pc, thread_calls, init_flag, register_calls, registered >>

\* no thread has called fill_audio_data yet; the once_flag is fresh
OnceInit ==
    /\ thread_pc = [t \in Threads |-> "idle"]
    /\ thread_calls = [t \in Threads |-> 0]
    /\ init_flag = "clear"
    /\ register_calls = 0
    /\ registered = FALSE

\* line 86: a thread calls fill_audio_data and arrives at std::call_once
CallFill(t) ==
    /\ thread_pc[t] = "idle"
    /\ thread_calls[t] < MaxCalls
    /\ thread_pc' = [thread_pc EXCEPT ![t] = "call_once"]
    /\ thread_calls' = [thread_calls EXCEPT ![t] = @ + 1]
    /\ UNCHANGED << init_flag, register_calls, registered >>

\* std::call_once lets a caller through while the callable is still running
CallOncePassesEarly(flag) == flag # "clear"

\* line 90: std::call_once returns to a caller that did not run the callable
\* only after the execution that did run it has returned
CallOncePasses(flag) == flag = "set"

\* line 90: the first caller to find the flag clear runs the callable, and
\* av_register_all is entered
CallOnceRuns(t) ==
    /\ thread_pc[t] = "call_once"
    /\ init_flag = "clear"
    /\ init_flag' = "active"
    /\ register_calls' = register_calls + 1
    /\ thread_pc' = [thread_pc EXCEPT ![t] = "registering"]
    /\ UNCHANGED << thread_calls, registered >>

\* line 90: av_register_all returns, the flag is set, and call_once returns
RegisterDone(t) ==
    /\ thread_pc[t] = "registering"
    /\ registered' = TRUE
    /\ init_flag' = "set"
    /\ thread_pc' = [thread_pc EXCEPT ![t] = "open"]
    /\ UNCHANGED << thread_calls, register_calls >>

\* line 90: any other caller waits, and returns without running the callable
CallOnceReturns(t) ==
    /\ thread_pc[t] = "call_once"
    /\ CallOncePasses(init_flag)
    /\ thread_pc' = [thread_pc EXCEPT ![t] = "open"]
    /\ UNCHANGED << thread_calls, init_flag, register_calls, registered >>

\* lines 92-250: the thread opens its file, does the rest, and returns
OpenAndReturn(t) ==
    /\ thread_pc[t] = "open"
    /\ thread_pc' = [thread_pc EXCEPT ![t] = "idle"]
    /\ UNCHANGED << thread_calls, init_flag, register_calls, registered >>

\* ------------------------------------------- tone profiles, lines 253-316
\* the doubles of the three tables, in thousandths
MAJOR_PROFILE == << 7239, 3504, 3584, 2845, 5819, 4559,
                    2448, 6995, 3391, 4556, 4074, 4459 >>
MINOR_PROFILE == << 7003, 3144, 4359, 5404, 3672, 4090,
                    3908, 6200, 3634, 2872, 5355, 3832 >>
OCTAVE_WEIGHTS == << 400, 556, 525, 608, 599, 491 >>

\* lines 298-302: the octave-major vector of OCTAVE_WEIGHTS[o] * profiles[s]
WeightedProfile(p) ==
    [k \in 1 .. OCTAVES * SEMITONES |->
        OCTAVE_WEIGHTS[((k - 1) \div SEMITONES) + 1] * p[((k - 1) % SEMITONES) + 1]]

\* the test of lines 297 and 308 left out: every call pushes its products
toneProfileAppending(tp, p) == tp \o WeightedProfile(p)

\* lines 296-316: toneProfileMajor and toneProfileMinor, on their vector
toneProfile(tp, p) == IF Len(tp) = 0 THEN tp \o WeightedProfile(p) ELSE tp

\* ------------------------------------------------------ main, lines 335-441
\* one comma separated field of a profile argument: a number, or other text
Number(v) == [numeric |-> TRUE, value |-> v]
Junk == [numeric |-> FALSE, value |-> 0]

ProfileOne == [s \in 1 .. SEMITONES |-> 1000 * s]
ProfileTwo == [s \in 1 .. SEMITONES |-> 1000 * (SEMITONES + 1 - s)]
TextOf(p) == [s \in 1 .. SEMITONES |-> Number(p[s])]

\* profile arguments: two well formed ones, one with a field that is no
\* number, one with two fields only
ProfileArgs == { TextOf(ProfileOne), TextOf(ProfileTwo),
                 [TextOf(ProfileOne) EXCEPT ![3] = Junk],
                 << Number(1000), Number(2000) >> }

\* the names KeyNotation::mappings knows, as far as main can tell them apart
KnownNotations == { "standard", "camelot" }

\* what getopt_long returns for one option, with its optarg; "?" is an
\* option outside "n:j:i:h" or one whose argument is missing
Options ==
    { [opt |-> "h", optarg |-> << >>], [opt |-> "?", optarg |-> << >>],
      [opt |-> "n", optarg |-> "camelot"], [opt |-> "n", optarg |-> "bogus"] }
    \cup { [opt |-> o, optarg |-> a] : o \in { "j", "i" }, a \in ProfileArgs }

\* getopt_long moves the options in front of the other arguments
ArgVectors ==
    { [options |-> os, file |-> f] :
        os \in UNION { [1 .. n -> Options] : n \in 0 .. MaxOptions },
        f \in BOOLEAN }

Keys == { "SILENCE", "A_MAJOR" }

\* what the try block of main can catch: the errors of fill_audio_data and
\* those of the key finder
Exceptions ==
    { "Unable to open audio file", "Unable to get stream info",
      "File does not have any audio streams", "Unsupported audio stream",
      "Unable to open the codec", "Unable to open the resample context",
      "Too many bad packets", "Unable to resample audio into 16bit PCM data",
      "KeyFinder::Exception" }

main_vars == << main_pc, argv, optind, selected_notation, profiles, tpMajor,
               tpMinor, first_major, first_minor, key, estimated_with,
               exit_code, out_lines, err_lines, ended_by >>

tone_vars == << tpMajor, tpMinor, first_major, first_minor >>

MainInit ==
    /\ argv \in ArgVectors
    /\ main_pc = "getopt"
    /\ optind = 0
    /\ selected_notation = "standard"
    /\ profiles = [s \in 1 .. SEMITONES |-> 0]
    /\ tpMajor = << >>
    /\ tpMinor = << >>
    /\ first_major = << >>
    /\ first_minor = << >>
    /\ key = "SILENCE"
    /\ estimated_with = << >>
    /\ exit_code = -1
    /\ out_lines = 0
    /\ err_lines = 0
    /\ ended_by = ""

\* one line written to a stream
WriteLine(stream) ==
    /\ out_lines' = out_lines + (IF stream = "cout" THEN 1 ELSE 0)
    /\ err_lines' = err_lines + (IF stream = "cerr" THEN 1 ELSE 0)

\* main returns, or the process is ended by a signal
Ends(code, why) ==
    /\ main_pc' = "exited"
    /\ exit_code' = code
    /\ ended_by' = why

\* line 362: getopt_long has an option to return
NextOption == argv.options[optind + 1]
HasOption(o) ==
    /\ main_pc = "getopt"
    /\ optind < Len(argv.options)
    /\ NextOption.opt = o

\* lines 367-369
GetoptHelp ==
    /\ HasOption("h")
    /\ WriteLine("cout")
    /\ Ends(0, "help")
    /\ UNCHANGED << argv, optind, selected_notation, profiles, tone_vars, key,
                    estimated_with >>

\* lines 371-373
GetoptUnknown ==
    /\ HasOption("?")
    /\ WriteLine("cerr")
    /\ Ends(0, "unknown_option")
    /\ UNCHANGED << argv, optind, selected_notation, profiles, tone_vars, key,
                    estimated_with >>

\* lines 375-383
GetoptNotation ==
    /\ HasOption("n")
    /\ IF NextOption.optarg \notin KnownNotations
       THEN /\ WriteLine("cerr")
            /\ Ends(1, "invalid_notation")
            /\ UNCHANGED << optind, selected_notation >>
       ELSE /\ selected_notation' = NextOption.optarg
            /\ optind' = optind + 1
            /\ UNCHANGED << main_pc, exit_code, ended_by, out_lines, err_lines >>
    /\ UNCHANGED << argv, profiles, tone_vars, key, estimated_with >>

\* lines 386-388 and 392-394: profile_str[s] read past the end of the
\* vector, or a field stod cannot convert
BadField(fields, s) == s > Len(fields) \/ ~fields[s].numeric
WellFormed(fields) == \A s \in 1 .. SEMITONES : ~BadField(fields, s)
FirstBadField(fields) ==
    CHOOSE s \in 1 .. SEMITONES :
        BadField(fields, s) /\ \A r \in 1 .. s - 1 : ~BadField(fields, r)

\* stod of one field
stod(field) == field.value

\* lines 385-388: the arrays the loop can leave in profiles. Reading past
\* the end of profile_str is undefined: the strings found there may convert
\* to any numbers.
ParsedProfiles(fields) ==
    IF WellFormed(fields)
    THEN { [s \in 1 .. SEMITONES |-> stod(fields[s])] }
    ELSE IF FirstBadField(fields) <= Len(fields)
    THEN { }
    ELSE { [s \in 1 .. SEMITONES |->
              IF s <= Len(fields) THEN stod(fields[s]) ELSE g[s]] :
           g \in { ProfileOne, ProfileTwo } }

\* lines 385-388: the ways the loop can end the process. stod throws
\* std::invalid_argument outside any try block, which ends in abort; a read
\* past the end may do the same, or fault.
ParseEnds(fields) ==
    IF WellFormed(fields) THEN { }
    ELSE IF FirstBadField(fields) <= Len(fields)
    THEN { << 134, "terminate" >> }
    ELSE { << 134, "terminate" >>, << 139, "fault" >> }

\* lines 384-390
GetoptMajor ==
    /\ HasOption("j")
    /\ \/ \E p \in ParsedProfiles(NextOption.optarg) :
             /\ profiles' = p
             /\ tpMajor' = toneProfile(tpMajor, p)
             /\ first_major' = IF first_major = << >> THEN p ELSE first_major
             /\ optind' = optind + 1
             /\ UNCHANGED << main_pc, exit_code, ended_by, tpMinor, first_minor >>
       \/ \E e \in ParseEnds(NextOption.optarg) :
             /\ Ends(e[1], e[2])
             /\ UNCHANGED << optind, profiles, tone_vars >>
    /\ UNCHANGED << argv, selected_notation, key, estimated_with, out_lines,
                    err_lines >>

\* lines 391-397
GetoptMinor ==
    /\ HasOption("i")
    /\ \/ \E p \in ParsedProfiles(NextOption.optarg) :
             /\ profiles' = p
             /\ tpMinor' = toneProfile(tpMinor, p)
             /\ first_minor' = IF first_minor = << >> THEN p ELSE first_minor
             /\ optind' = optind + 1
             /\ UNCHANGED << main_pc, exit_code, ended_by, tpMajor, first_major >>
       \/ \E e \in ParseEnds(NextOption.optarg) :
             /\ Ends(e[1], e[2])
             /\ UNCHANGED << optind, profiles, tone_vars >>
    /\ UNCHANGED << argv, selected_notation, key, estimated_with, out_lines,
                    err_lines >>

\* lines 362 and 404-408: getopt_long returns -1; no filename is left
GetoptEnd ==
    /\ main_pc = "getopt"
    /\ optind = Len(argv.options)
    /\ IF ~argv.file
       THEN /\ WriteLine("cerr")
            /\ Ends(1, "missing_filename")
       ELSE /\ main_pc' = "analyse"
            /\ UNCHANGED << exit_code, ended_by, out_lines, err_lines >>
    /\ UNCHANGED << argv, optind, selected_notation, profiles, tone_vars, key,
                    estimated_with >>

\* lines 421-433: the try block. fill_audio_data or the key finder throws,
\* and main reports it; or line 426 is reached, the two profiles are taken
\* through toneProfileMajor and toneProfileMinor, and a key comes back.
Analyse ==
    /\ main_pc = "analyse"
    /\ \/ \E e \in Exceptions :
             /\ WriteLine("cerr")
             /\ Ends(1, "exception")
             /\ UNCHANGED << tone_vars, key, estimated_with >>
       \/ \E k \in Keys :
             /\ tpMajor' = toneProfile(tpMajor, MAJOR_PROFILE)
             /\ tpMinor' = toneProfile(tpMinor, MINOR_PROFILE)
             /\ first_major' = IF first_major = << >> THEN MAJOR_PROFILE
                               ELSE first_major
             /\ first_minor' = IF first_minor = << >> THEN MINOR_PROFILE
                               ELSE first_minor
             /\ estimated_with' = << tpMajor', tpMinor' >>
             /\ key' = k
             /\ main_pc' = "print"
             /\ UNCHANGED << exit_code, ended_by, out_lines, err_lines >>
    /\ UNCHANGED << argv, optind, selected_notation, profiles >>

\* lines 436-441
PrintKey ==
    /\ main_pc = "print"
    /\ IF key # "SILENCE" THEN WriteLine("cout")
       ELSE UNCHANGED << out_lines, err_lines >>
    /\ Ends(0, "success")
    /\ UNCHANGED << argv, optind, selected_notation, profiles, tone_vars, key,
                    estimated_with >>

\* ------------------------------------------------------- specifications
fill_vars == << pc, err, streams, audio_stream, codec_context, held, packet,
                current_packet_offset, back_packet_count, audio_frame, audio,
                resample, max_units, many_bad, at_eof, units_read,
                frames_made, history >>

\* the command line with nothing on it
NoArgs == [options |-> << >>, file |-> FALSE]

\* main and the threads, while they are not what is being followed
Rest == << once_vars, main_vars >>

\* one call of fill_audio_data by a single thread
Init == argv = NoArgs /\ MainInit /\ OnceInit /\ FillInit

Next ==
    \/ OpenInput /\ UNCHANGED Rest
    \/ FindStreamInfo /\ UNCHANGED Rest
    \/ SelectStream /\ UNCHANGED Rest
    \/ FindDecoder /\ UNCHANGED Rest
    \/ OpenCodec /\ UNCHANGED Rest
    \/ OpenResample /\ UNCHANGED Rest
    \/ PrepareAudio /\ UNCHANGED Rest
    \/ LoopTop /\ UNCHANGED Rest
    \/ ReadFrame /\ UNCHANGED Rest
    \/ ReadCheck /\ UNCHANGED Rest
    \/ Decode /\ UNCHANGED Rest
    \/ Convert /\ UNCHANGED Rest
    \/ AppendFrame /\ UNCHANGED Rest
    \/ Exit /\ UNCHANGED Rest

\* a file with no streams, while fill_audio_data is not what is followed
NoFile == streams = << >> /\ FillInit

\* several threads entering fill_audio_data; what each does after
\* std::call_once is not followed
ThreadsInit == argv = NoArgs /\ MainInit /\ OnceInit /\ NoFile

ThreadsNext ==
    \/ \E t \in Threads : CallFill(t) /\ UNCHANGED << fill_vars, main_vars >>
    \/ \E t \in Threads : CallOnceRuns(t) /\ UNCHANGED << fill_vars, main_vars >>
    \/ \E t \in Threads : RegisterDone(t) /\ UNCHANGED << fill_vars, main_vars >>
    \/ \E t \in Threads : CallOnceReturns(t) /\ UNCHANGED << fill_vars, main_vars >>
    \/ \E t \in Threads : OpenAndReturn(t) /\ UNCHANGED << fill_vars, main_vars >>

OnceSpec == ThreadsInit /\ [][ThreadsNext]_vars

\* main over every command line, with fill_audio_data as one step of it
MainSpecInit == MainInit /\ OnceInit /\ NoFile

MainNext ==
    \/ GetoptHelp /\ UNCHANGED << fill_vars, once_vars >>
    \/ GetoptUnknown /\ UNCHANGED << fill_vars, once_vars >>
    \/ GetoptNotation /\ UNCHANGED << fill_vars, once_vars >>
    \/ GetoptMajor /\ UNCHANGED << fill_vars, once_vars >>
    \/ GetoptMinor /\ UNCHANGED << fill_vars, once_vars >>
    \/ GetoptEnd /\ UNCHANGED << fill_vars, once_vars >>
    \/ Analyse /\ UNCHANGED << fill_vars, once_vars >>
    \/ PrintKey /\ UNCHANGED << fill_vars, once_vars >>

MainSpec == MainSpecInit /\ [][MainNext]_vars

Spec == Init /\ [][Next]_vars

\* the program runs on: a step is taken whenever one is possible
FairSpec == Spec /\ WF_vars(Next)

\* ------------------------------------------------------------ properties
ReadPcs == {"read", "read_check"}
IsAudio(st) == st.codec_type = "audio"

\* C1: a new packet is fetched only when every byte of the current packet has
\* been consumed by the decode calls so far, or after a decode error; bytes
\* left over by a successful decode call are decoded before any fetch.
C1_FetchOnlyWhenConsumed ==
    pc \in ReadPcs => (unit_consumed = unit_size \/ decode_failed)

\* C2: after every successful decode call the packet's cursor stands at the
\* sum of the bytes consumed from the packet so far, and the range left for
\* the next decode call runs from there to the packet's end: no byte is
\* skipped and none is decoded twice.
C2_CursorAtConsumed ==
    (pc \in {"loop", "decode", "convert", "append"} /\ packet.has_data
        /\ ~decode_failed)
    => (packet.data = unit_consumed /\ packet.size = unit_size - unit_consumed)

\* C3: SafeAVPacket::read terminates for every finite container and every
\* target stream index: once entered it returns, with a packet of the target
\* stream or, the container exhausted, with the end of stream signal.
C3_ReadTerminates ==
    (pc \in ReadPcs) ~> (pc \notin ReadPcs)

\* C4: the decode aborts with "Too many bad packets" exactly when the 101st
\* decode error of the file occurs: never with 100 or fewer, and at once with
\* the 101st.
C4_TooManyAt101st ==
    /\ errors_seen <= BAD_PACKET_THRESHOLD + 1
    /\ (err = "Too many bad packets") <=> (errors_seen = BAD_PACKET_THRESHOLD + 1)
    /\ (err = "Too many bad packets") => pc = "thrown"

C4_Witness ==
    /\ pc = "thrown"
    /\ err = "Too many bad packets"
    /\ errors_seen = BAD_PACKET_THRESHOLD + 1

\* C5: when fill_audio_data ends with an error the caller's AudioData holds
\* none of the samples, never a prefix of them.
C5_NoPartialOutput ==
    pc = "thrown" => audio.samples = << >>

\* C6: every resource fill_audio_data acquired is released when the call
\* exits, by return or by any of its exceptions.
C6_AllReleased ==
    pc \in {"done", "thrown"} => held = {}

\* C7: after a successful decode the AudioData holds exactly the samples of
\* the canonical frames, linesize[0] / 2 of each, in the order the frames were
\* produced and in their order within each frame.
C7_SamplesInOrder ==
    pc = "done" => audio.samples = canonical

C7_Witness ==
    /\ pc = "done"
    /\ frames_made = 2
    /\ Len(audio.samples) >= 3

\* C8: the bad packet counter never decreases and is never reset: after every
\* step it is the number of decode errors seen so far in the file.
C8_BadCountMonotone ==
    [][/\ back_packet_count' >= back_packet_count
       /\ back_packet_count' = errors_seen']_vars

\* a frame decoded from a later packet, after an earlier decode error
C8_Witness ==
    /\ pc = "append"
    /\ back_packet_count >= 1
    /\ ~decode_failed
    /\ units_read >= 2

\* C9: the stream selected is the first stream in container order whose media
\* type is audio, and when no stream is audio the decode fails with the no
\* audio stream error.
SelectionDone ==
    /\ pc \notin {"open", "probe", "select"}
    /\ err \notin {"Unable to open audio file", "Unable to get stream info"}

C9_FirstAudioSelected ==
    SelectionDone =>
        IF \E i \in 1..Len(streams) : IsAudio(streams[i])
        THEN /\ audio_stream \in 0..(Len(streams) - 1)
             /\ IsAudio(streams[audio_stream + 1])
             /\ \A j \in 1..audio_stream : ~IsAudio(streams[j])
             /\ err # "File does not have any audio streams"
        ELSE /\ audio_stream = -1
             /\ pc = "thrown"
             /\ err = "File does not have any audio streams"

\* two audio streams: the first is taken
C9_Witness ==
    /\ SelectionDone
    /\ Len(streams) = 2
    /\ IsAudio(streams[1]) /\ IsAudio(streams[2])
    /\ audio_stream = 0

\* C10: when no stream is audio, fill_audio_data fails with the no audio
\* stream error and the AudioData is as it was before the call.
C10_NoAudioLeavesAudioData ==
    (\A i \in 1..Len(streams) : ~IsAudio(streams[i]))
    => /\ audio = EmptyAudioData
       /\ SelectionDone =>
            (pc = "thrown" /\ err = "File does not have any audio streams")

C10_Witness ==
    /\ pc = "thrown"
    /\ err = "File does not have any audio streams"
    /\ Len(streams) = 2

\* the stream the selection took
SelectedStream == streams[audio_stream + 1]

\* C11: after a successful decode the AudioData's frame rate and channel count
\* are the selected stream's native sample rate and channel count, whether or
\* not frames were resampled and whether or not a default channel layout was
\* derived.
C11_RateAndChannelsOfStream ==
    pc = "done" =>
        /\ audio.frameRate = SelectedStream.sample_rate
        /\ audio.channels = SelectedStream.channels

\* a stream without a channel layout, decoded to the end with a frame
C11_Witness ==
    /\ pc = "done"
    /\ frames_made >= 1
    /\ SelectedStream.channel_layout = 0
    /\ codec_context.channel_layout # 0

\* C12: the AudioData's length never decreases and a sample once appended is
\* never rewritten: every step leaves the samples it found in place.
C12_AppendOnly ==
    [][/\ Len(audio'.samples) >= Len(audio.samples)
       /\ \A i \in 1..Len(audio.samples) : audio'.samples[i] = audio.samples[i]]_vars

\* a second frame appended behind the first
C12_Witness ==
    /\ pc = "loop"
    /\ frames_made = 2
    /\ Len(audio.samples) >= 2
    /\ audio.samples = canonical

\* C15: after a decode error below the threshold the rest of the packet is
\* dropped: the loop fetches a new packet before any further decode call, and
\* nothing is appended for the failed call.
C15_ErrorDropsPacket ==
    (decode_failed /\ pc # "thrown") =>
        /\ pc \in {"loop"} \cup ReadPcs
        /\ pc = "loop" => current_packet_offset >= packet.size

\* a packet that failed after part of it had been decoded
C15_Witness ==
    /\ decode_failed
    /\ pc = "read"
    /\ unit_consumed >= 1
    /\ unit_consumed < unit_size

\* C17: a frame goes through the resample context if and only if the stream's
\* sample format is not 16 bit signed PCM; the context converts to
\* AV_SAMPLE_FMT_S16 at the input's rate and layout; a failed conversion ends
\* the decode with the resample error.
C17_ResampleIffNotS16 ==
    /\ pc = "convert" =>
          (SelectedStream.sample_fmt # S16 /\ audio_frame.format # S16)
    /\ pc = "append" => audio_frame.format = S16
    /\ resample.opened =>
          /\ resample.in_sample_fmt = SelectedStream.sample_fmt
          /\ resample.out_sample_fmt = S16
          /\ resample.out_sample_rate = resample.in_sample_rate
          /\ resample.in_sample_rate = SelectedStream.sample_rate
          /\ resample.out_channel_layout = resample.in_channel_layout
    /\ err = "Unable to resample audio into 16bit PCM data" => pc = "thrown"

\* a float frame that has been converted
C17_Witness ==
    /\ pc = "append"
    /\ SelectedStream.sample_fmt = FLT
    /\ audio_frame.format = S16
    /\ Len(audio_frame.data) = 2

\* C18: in the decode loop the unconsumed range lies inside the packet: the
\* remaining size is never negative and the data pointer never passes the end
\* of the unit's bytes.
C18_CursorInsidePacket ==
    (pc \in {"loop", "decode", "convert", "append"} /\ packet.has_data) =>
        /\ packet.size >= 0
        /\ packet.data <= unit_size

\* C19: every iteration of the decode loop makes progress: an iteration that
\* decodes and goes round again has reduced the bytes left in the packet or
\* counted a bad packet.
C19_IterationProgress ==
    [][(pc = "decode" /\ pc' = "loop") =>
          \/ packet'.size < packet.size
          \/ back_packet_count' > back_packet_count]_vars

\* C16: the packets handed to the decoder are exactly the units of the
\* selected stream, in container order and each fetched once; units of other
\* streams are never decoded; and read holds at most one unit it has not
\* released, since each fetch releases the one before.
C16_DecodesTargetUnitsOnly ==
    /\ units_read - units_unreffed \in {0, 1}
    /\ \/ decoded_units = target_units
       \/ /\ pc \in {"read_check", "decode"}
          /\ target_units = Append(decoded_units, units_read)

\* three units of a two stream container, the second of the other stream
C16_Witness ==
    /\ Len(streams) = 2
    /\ units_read = 3
    /\ decoded_units = << 1, 3 >>
    /\ units_unreffed = 2

\* C13: with several threads calling fill_audio_data, av_register_all is
\* entered at most once, and a thread that is past std::call_once, about to
\* open its file, finds that one registration completed.
C13_RegisteredOnceBeforeOpen ==
    /\ register_calls <= 1
    /\ \A t \in Threads :
          thread_pc[t] = "open" => registered /\ register_calls = 1

\* two threads past call_once at once, one of them in its second call
C13_Witness ==
    \E t, u \in Threads :
        /\ t # u
        /\ thread_pc[t] = "open" /\ thread_pc[u] = "open"
        /\ thread_calls[u] = 2
        /\ register_calls = 1

\* C14: main ends with code 0 on success, having written the key label to
\* the output stream, or nothing for silence; and with code 1, having
\* written one line to the error stream, on an error of the analysis, an
\* unknown option, an invalid key notation or a missing filename.
C14_ExitCodes ==
    main_pc = "exited" =>
        /\ ended_by = "success" =>
              /\ exit_code = 0
              /\ err_lines = 0
              /\ out_lines = (IF key = "SILENCE" THEN 0 ELSE 1)
        /\ ended_by \in { "exception", "unknown_option", "invalid_notation",
                          "missing_filename" } =>
              /\ exit_code = 1
              /\ err_lines = 1
              /\ out_lines = 0

\* the vector tp holds OCTAVE_WEIGHTS[o] * p[s] for every octave and semitone
BuiltFrom(tp, p) ==
    /\ Len(tp) = OCTAVES * SEMITONES
    /\ \A o \in 1 .. OCTAVES : \A st \in 1 .. SEMITONES :
          tp[(o - 1) * SEMITONES + st] = OCTAVE_WEIGHTS[o] * p[st]

\* the options of one letter on the command line, in order
OptionsOf(o) == SelectSeq(argv.options, LAMBDA x : x.opt = o)

\* the profile the first option of one letter gives, or the built-in one
ProfileInForce(o, builtin) ==
    IF OptionsOf(o) = << >> THEN builtin
    ELSE [s \in 1 .. SEMITONES |-> OptionsOf(o)[1].optarg[s].value]

FirstIsWellFormed(o) ==
    OptionsOf(o) # << >> => WellFormed(OptionsOf(o)[1].optarg)

\* C20: once toneProfileMajor or toneProfileMinor has been called, its vector
\* has OCTAVES * SEMITONES elements built from the profile of its first call,
\* whatever later calls pass; so the key is estimated with the profile of the
\* first -j and of the first -i option, and with the built-in one where
\* there is no such option.
C20_FirstProfileKept ==
    /\ first_major # << >> => BuiltFrom(tpMajor, first_major)
    /\ first_minor # << >> => BuiltFrom(tpMinor, first_minor)
    /\ first_major = << >> => tpMajor = << >>
    /\ first_minor = << >> => tpMinor = << >>
    /\ (estimated_with # << >> /\ FirstIsWellFormed("j")) =>
          BuiltFrom(estimated_with[1], ProfileInForce("j", MAJOR_PROFILE))
    /\ (estimated_with # << >> /\ FirstIsWellFormed("i")) =>
          BuiltFrom(estimated_with[2], ProfileInForce("i", MINOR_PROFILE))

\* two -j options with different profiles and no -i: the key was estimated
\* with the first -j profile and the built-in minor profile
C20_Witness ==
    /\ main_pc = "exited"
    /\ ended_by = "success"
    /\ Len(OptionsOf("j")) = 2
    /\ OptionsOf("j")[1].optarg = TextOf(ProfileOne)
    /\ OptionsOf("j")[2].optarg = TextOf(ProfileTwo)
    /\ OptionsOf("i") = << >>
    /\ estimated_with = << WeightedProfile(ProfileOne),
                          WeightedProfile(MINOR_PROFILE) >>

====
